---- MODULE Spec2Model ----
(***************************************************************************)
(* Model of admin_rescue_v23.1.patcher.py (apply_unified_patch): main(),   *)
(* apply_patch() and the helpers they call, together with the unified diff *)
(* that auto_patch.py computes with difflib.unified_diff.                  *)
(*                                                                         *)
(* A text line is a sequence of one-character strings, its terminator      *)
(* included, so that prefixes, payloads and header tokens are what the     *)
(* Python string methods make of them.  Indices named after the program's  *)
(* (orig_idx, patch_idx, old_start) are 0-based as in the program.         *)
(***************************************************************************)
EXTENDS Integers, Sequences, FiniteSets, TLC

VARIABLES
    pc,             \* position of the run: main's steps, apply_patch's loops, an end
    fs,             \* the file system: what each of the three paths holds
    input,          \* the two files as they were when main() started
    target_lines,   \* auto_patch.py's patched_lines, the text a diff leads to
    original_lines, \* main's / apply_patch's original_lines
    patch_lines,    \* main's / apply_patch's patch_lines
    result,         \* apply_patch's result list
    orig_idx,       \* apply_patch's cursor into original_lines
    patch_idx,      \* apply_patch's cursor into patch_lines
    old_start,      \* 0-based start of the hunk whose header was parsed last
    patched_lines,  \* what apply_patch returned to main (empty until then)
    stderr          \* the message die() printed, or the uncaught exception

vars == <<pc, fs, input, target_lines, original_lines, patch_lines, result, orig_idx,
          patch_idx, old_start, patched_lines, stderr>>

----------------------------------------------------------------------------
(* Bounds of the model.                                                    *)

MaxOrigLines == 2

MaxPatchLines == 3

\* The longest of the short line lists a diff is computed between.
MaxDiffLines == 3

----------------------------------------------------------------------------
(* Python string methods, on sequences of characters.                      *)

\* What a path holds: no file, or a file with its content.
Absent == [exists |-> FALSE, content |-> <<>>]

File(content) == [exists |-> TRUE, content |-> content]

SetMin(S) == CHOOSE x \in S : \A y \in S : x <= y

SetMax(S) == CHOOSE x \in S : \A y \in S : x >= y

\* str.startswith(prefix)
StartsWith(s, prefix) ==
    /\ Len(s) >= Len(prefix)
    /\ SubSeq(s, 1, Len(prefix)) = prefix

\* s[k:] with a 0-based k
From(s, k) == SubSeq(s, k + 1, Len(s))

\* The characters str.strip() removes (those the model's alphabet can hold).
WhiteSpace == {" ", "\t", "\n", "\r", "\f"}

\* str.lstrip(chars)
LStrip(s, chars) ==
    LET keep == {i \in 1..Len(s) : s[i] \notin chars}
    IN  IF keep = {} THEN <<>> ELSE SubSeq(s, SetMin(keep), Len(s))

\* str.rstrip(chars)
RStrip(s, chars) ==
    LET keep == {i \in 1..Len(s) : s[i] \notin chars}
    IN  IF keep = {} THEN <<>> ELSE SubSeq(s, 1, SetMax(keep))

\* str.strip()
Strip(s) == RStrip(LStrip(s, WhiteSpace), WhiteSpace)

\* str.find(sub, start): the 1-based position of the first occurrence of sub
\* that begins after the first `start` characters, 0 when there is none.
Find(s, sub, start) ==
    LET at == {i \in (start + 1)..(Len(s) - Len(sub) + 1) :
                  SubSeq(s, i, i + Len(sub) - 1) = sub}
    IN  IF at = {} THEN 0 ELSE SetMin(at)

\* str.split(sep, 1): one part when sep does not occur, else two.
Split1(s, sep) ==
    LET i == Find(s, sep, 0)
    IN  IF i = 0 THEN <<s>>
        ELSE <<SubSeq(s, 1, i - 1), From(s, i - 1 + Len(sep))>>

\* str.split(sep, 2): up to three parts.
Split2(s, sep) ==
    LET first == Split1(s, sep)
    IN  IF Len(first) = 1 THEN first ELSE <<first[1]>> \o Split1(first[2], sep)

\* str.split(sep)[0]
SplitHead(s, sep) == Split1(s, sep)[1]

DigitChars == <<"0", "1", "2", "3", "4", "5", "6", "7", "8", "9">>

IsDigit(c) == \E d \in 1..Len(DigitChars) : DigitChars[d] = c

DigitValue(c) == (CHOOSE d \in 1..Len(DigitChars) : DigitChars[d] = c) - 1

RECURSIVE DecimalValue(_)
DecimalValue(digits) ==
    IF digits = <<>> THEN 0
    ELSE DecimalValue(SubSeq(digits, 1, Len(digits) - 1)) * Len(DigitChars)
           + DigitValue(digits[Len(digits)])

\* int(s): surrounding whitespace, one optional sign, decimal digits with
\* single underscores between them; anything else raises ValueError.
PyInt(s) ==
    LET t      == Strip(s)
        signed == t # <<>> /\ t[1] \in {"+", "-"}
        body   == IF signed THEN Tail(t) ELSE t
        wellformed ==
            /\ body # <<>>
            /\ \A i \in 1..Len(body) : IsDigit(body[i]) \/ body[i] = "_"
            /\ IsDigit(body[1])
            /\ IsDigit(body[Len(body)])
            /\ \A i \in 1..(Len(body) - 1) : ~(body[i] = "_" /\ body[i + 1] = "_")
        digits == SelectSeq(body, IsDigit)
    IN  IF ~wellformed THEN [ok |-> FALSE, value |-> 0]
        ELSE [ok |-> TRUE,
              value |-> IF signed /\ t[1] = "-" THEN 0 - DecimalValue(digits)
                        ELSE DecimalValue(digits)]

\* "".join(lines)
RECURSIVE Join(_)
Join(lines) == IF lines = <<>> THEN <<>> ELSE Head(lines) \o Join(Tail(lines))

\* Path.read_text(): text mode with universal newlines, "\r\n" and "\r" read
\* as "\n".
RECURSIVE ReadText(_)
ReadText(bytes) ==
    IF bytes = <<>> THEN <<>>
    ELSE IF bytes[1] = "\r"
         THEN IF Len(bytes) >= 2 /\ bytes[2] = "\n"
              THEN <<"\n">> \o ReadText(From(bytes, 2))
              ELSE <<"\n">> \o ReadText(Tail(bytes))
         ELSE <<bytes[1]>> \o ReadText(Tail(bytes))

\* The line boundaries str.splitlines() recognises in the model's alphabet.
LineBreaks == {"\n", "\r", "\f"}

\* str.splitlines(keepends=True)
RECURSIVE SplitLines(_)
SplitLines(text) ==
    IF text = <<>> THEN <<>>
    ELSE LET brk == {i \in 1..Len(text) : text[i] \in LineBreaks}
         IN  IF brk = {} THEN <<text>>
             ELSE LET b == SetMin(brk)
                      e == IF text[b] = "\r" /\ b < Len(text) /\ text[b + 1] = "\n"
                           THEN b + 1 ELSE b
                  IN  <<SubSeq(text, 1, e)>> \o SplitLines(From(text, e))

----------------------------------------------------------------------------
(* apply_patch().  A frame holds the function's locals and its position:   *)
(* "scan" is the head of the outer while loop, "copy" the head of the copy *)
(* loop of a hunk, "body" the head of the hunk-body loop; "returned",      *)
(* "died" (die() printed and exited) and "crashed" (an exception nothing   *)
(* catches) end it.                                                        *)

NoMessage == [msg |-> "", arg |-> <<>>]

\* A die() that prints its message and lets the caller go on.
DieWithoutExit(s, msg, arg) ==
    [s EXCEPT !.pc = "returned", !.stderr = [msg |-> msg, arg |-> arg]]

\* die(msg): print the message to stderr and sys.exit(1).
Die(s, msg, arg) ==
    [s EXCEPT !.pc = "died", !.stderr = [msg |-> msg, arg |-> arg]]

\* An exception that no handler catches ends the process with a traceback.
Raise(s, exception) ==
    [s EXCEPT !.pc = "crashed", !.stderr = [msg |-> exception, arg |-> <<>>]]

\* line.startswith(("---", "+++", "diff ", "index "))
IsDiffHeader(line) ==
    \/ StartsWith(line, <<"-", "-", "-">>)
    \/ StartsWith(line, <<"+", "+", "+">>)
    \/ StartsWith(line, <<"d", "i", "f", "f", " ">>)
    \/ StartsWith(line, <<"i", "n", "d", "e", "x", " ">>)

\* line.startswith("@@")
IsHunkHeader(line) == StartsWith(line, <<"@", "@">>)

\* A header parse that takes the 1-based line number as the index.
ParseHunkHeaderOneBased(header) ==
    LET parts  == Split2(header, <<"@", "@">>)
        tokens == Split1(Strip(parts[2]), <<" ">>)
        number == PyInt(LStrip(SplitHead(tokens[1], <<",">>), {"-"}))
    IN  IF Len(parts) # 3 THEN [ok |-> FALSE, old_start |-> 0]
        ELSE IF Len(tokens) # 2 THEN [ok |-> FALSE, old_start |-> 0]
        ELSE IF ~number.ok THEN [ok |-> FALSE, old_start |-> 0]
        ELSE [ok |-> TRUE, old_start |-> number.value]

\* The try block of the hunk header: ok is FALSE where it raises.
ParseHunkHeader(header) ==
    LET parts  == Split2(header, <<"@", "@">>)
        ranges == parts[2]
        tokens == Split1(Strip(ranges), <<" ">>)
        old_range == tokens[1]
        number == PyInt(LStrip(SplitHead(old_range, <<",">>), {"-"}))
    IN  IF Len(parts) # 3 THEN [ok |-> FALSE, old_start |-> 0]
        ELSE IF Len(tokens) # 2 THEN [ok |-> FALSE, old_start |-> 0]
        ELSE IF ~number.ok THEN [ok |-> FALSE, old_start |-> 0]
        ELSE [ok |-> TRUE, old_start |-> number.value - 1]

\* A skip of a diff header that forgets patch_idx += 1.
SkipDiffHeaderInPlace(s) == s

\* Skip diff headers: patch_idx += 1; continue
SkipDiffHeader(s) == [s EXCEPT !.patch_idx = s.patch_idx + 1]

\* A hunk header at the head of the outer loop: parse it or die.
BeginHunk(line, s) ==
    LET h == ParseHunkHeader(line)
    IN  IF h.ok THEN [s EXCEPT !.pc = "copy", !.old_start = h.old_start]
        ELSE Die(s, "Malformed hunk header", Strip(line))

\* A copy that runs past the end of the original without an IndexError.
CopyLinePastEnd(O, s) ==
    [s EXCEPT !.result = IF s.orig_idx < Len(O)
                         THEN Append(s.result, O[s.orig_idx + 1]) ELSE s.result,
              !.orig_idx = s.orig_idx + 1]

\* One iteration of `while orig_idx < old_start`: original_lines[orig_idx]
\* raises IndexError past the end of the list.
CopyLine(O, s) ==
    IF s.orig_idx >= Len(O) THEN Raise(s, "IndexError")
    ELSE [s EXCEPT !.result = Append(s.result, O[s.orig_idx + 1]),
                   !.orig_idx = s.orig_idx + 1]

\* The copy loop is over: patch_idx += 1 and on to the hunk body.
EnterHunk(s) == [s EXCEPT !.patch_idx = s.patch_idx + 1, !.pc = "body"]

\* A context check that ignores surrounding whitespace.
ContextLineLoose(O, pline, s) ==
    IF s.orig_idx >= Len(O) \/ Strip(O[s.orig_idx + 1]) # Strip(From(pline, 1))
    THEN [s EXCEPT !.pc = "died",
                   !.stderr = [msg |-> "Context mismatch while applying patch",
                               arg |-> <<>>]]
    ELSE [s EXCEPT !.result = Append(s.result, O[s.orig_idx + 1]),
                   !.orig_idx = s.orig_idx + 1,
                   !.patch_idx = s.patch_idx + 1]

\* A context line of the hunk body.
ContextLine(O, pline, s) ==
    IF s.orig_idx >= Len(O) \/ O[s.orig_idx + 1] # From(pline, 1)
    THEN Die(s, "Context mismatch while applying patch", <<>>)
    ELSE [s EXCEPT !.result = Append(s.result, O[s.orig_idx + 1]),
                   !.orig_idx = s.orig_idx + 1,
                   !.patch_idx = s.patch_idx + 1]

\* A removal line of the hunk body.
RemovalLine(O, pline, s) ==
    IF s.orig_idx >= Len(O) \/ O[s.orig_idx + 1] # From(pline, 1)
    THEN Die(s, "Removal mismatch while applying patch", <<>>)
    ELSE [s EXCEPT !.orig_idx = s.orig_idx + 1,
                   !.patch_idx = s.patch_idx + 1]

\* An insertion that keeps the "+" of the patch line.
InsertLineWithPrefix(pline, s) ==
    [s EXCEPT !.result = Append(s.result, pline),
              !.patch_idx = s.patch_idx + 1]

\* An insertion line of the hunk body.
InsertLine(pline, s) ==
    [s EXCEPT !.result = Append(s.result, From(pline, 1)),
              !.patch_idx = s.patch_idx + 1]

\* One pass through the hunk-body loop, from its condition on.
BodyStep(O, P, s) ==
    IF s.patch_idx >= Len(P) THEN [s EXCEPT !.pc = "scan"]
    ELSE LET pline == P[s.patch_idx + 1]
         IN  IF IsHunkHeader(pline) THEN [s EXCEPT !.pc = "scan"]
             ELSE IF StartsWith(pline, <<" ">>) THEN ContextLine(O, pline, s)
             ELSE IF StartsWith(pline, <<"-">>) THEN RemovalLine(O, pline, s)
             ELSE IF StartsWith(pline, <<"+">>) THEN InsertLine(pline, s)
             ELSE Die(s, "Unexpected patch line", Strip(pline))

\* A return that leaves out the lines after the last hunk.
FinishWithoutTail(O, s) == [s EXCEPT !.pc = "returned"]

\* Append remaining original lines and return.
Finish(O, s) ==
    [s EXCEPT !.result = s.result \o From(O, s.orig_idx), !.pc = "returned"]

\* One pass through the outer loop, from its condition to the copy loop.
ScanStep(O, P, s) ==
    IF s.patch_idx >= Len(P) THEN Finish(O, s)
    ELSE LET line == P[s.patch_idx + 1]
         IN  IF IsDiffHeader(line) THEN SkipDiffHeader(s)
             ELSE IF IsHunkHeader(line) THEN BeginHunk(line, s)
             ELSE Die(s, "Unexpected patch content", Strip(line))

\* A copy loop that also copies the line the hunk starts at.
CopyStepInclusive(O, s) ==
    IF s.orig_idx <= s.old_start
    THEN (IF s.orig_idx >= Len(O)
          THEN [s EXCEPT !.pc = "crashed",
                         !.stderr = [msg |-> "IndexError", arg |-> <<>>]]
          ELSE [s EXCEPT !.result = Append(s.result, O[s.orig_idx + 1]),
                         !.orig_idx = s.orig_idx + 1])
    ELSE [s EXCEPT !.patch_idx = s.patch_idx + 1, !.pc = "body"]

\* One pass through the copy loop, from its condition on.
CopyStep(O, s) ==
    IF s.orig_idx < s.old_start THEN CopyLine(O, s) ELSE EnterHunk(s)

Ended == {"returned", "died", "crashed"}

\* The next frame of apply_patch(O, P).
Step(O, P, s) ==
    CASE s.pc = "scan" -> ScanStep(O, P, s)
      [] s.pc = "copy" -> CopyStep(O, s)
      [] s.pc = "body" -> BodyStep(O, P, s)
      [] OTHER -> s

\* result = [], orig_idx = 0, patch_idx = 0
EntryFrame ==
    [pc |-> "scan", result |-> <<>>, orig_idx |-> 0, patch_idx |-> 0,
     old_start |-> 0, stderr |-> NoMessage]

RECURSIVE RunFrom(_, _, _)
RunFrom(O, P, s) == IF s.pc \in Ended THEN s ELSE RunFrom(O, P, Step(O, P, s))

\* apply_patch(original_lines, patch_lines), run to its end.
apply_patch(O, P) == RunFrom(O, P, EntryFrame)

----------------------------------------------------------------------------
(* auto_patch.py: difflib.unified_diff(orig_lines, patched_lines,          *)
(* fromfile=ORIGINAL_FILE, tofile=PATCHED_FILE, lineterm='').  Positions   *)
(* in a and b are 0-based and ranges half-open, as in difflib.  Without a  *)
(* junk test, and below the 200 lines where difflib starts to set popular  *)
(* lines aside, the longest matching block is the plain one.               *)

\* The n of unified_diff, left at its default.
ContextLines == 3

ORIGINAL_FILE == <<"a", "d", "m", "i", "n", "_", "r", "e", "s", "c", "u", "e", "_", "o", "r", "i", "g", "i", "n", "a", "l", ".", "s", "h">>

PATCHED_FILE == <<"a", "d", "m", "i", "n", "_", "r", "e", "s", "c", "u", "e", "_", "p", "a", "t", "c", "h", "e", "d", ".", "s", "h">>

Smaller(x, y) == IF x <= y THEN x ELSE y

Larger(x, y) == IF x >= y THEN x ELSE y

\* The length of the longest block a[i:i+k] == b[j:j+k] within the ranges.
BlockLength(a, b, i, j, ahi, bhi) ==
    SetMax({k \in 0..Smaller(ahi - i, bhi - j) :
               SubSeq(a, i + 1, i + k) = SubSeq(b, j + 1, j + k)})

\* SequenceMatcher.find_longest_match: the longest matching block, of those
\* the one that starts earliest in a, of those the one earliest in b.
find_longest_match(a, b, alo, ahi, blo, bhi) ==
    LET size(i, j) == BlockLength(a, b, i, j, ahi, bhi)
        best == SetMax({size(i, j) : i \in alo..(ahi - 1), j \in blo..(bhi - 1)}
                          \cup {0})
    IN  IF best = 0 THEN [i |-> alo, j |-> blo, size |-> 0]
        ELSE LET i == SetMin({x \in alo..(ahi - 1) :
                                 \E y \in blo..(bhi - 1) : size(x, y) = best})
                 j == SetMin({y \in blo..(bhi - 1) : size(i, y) = best})
             IN  [i |-> i, j |-> j, size |-> best]

\* The matching blocks of a[alo:ahi] and b[blo:bhi], in order.
RECURSIVE MatchingBlocks(_, _, _, _, _, _)
MatchingBlocks(a, b, alo, ahi, blo, bhi) ==
    LET m == find_longest_match(a, b, alo, ahi, blo, bhi)
    IN  IF m.size = 0 THEN <<>>
        ELSE (IF alo < m.i /\ blo < m.j
              THEN MatchingBlocks(a, b, alo, m.i, blo, m.j) ELSE <<>>)
             \o <<m>>
             \o (IF m.i + m.size < ahi /\ m.j + m.size < bhi
                 THEN MatchingBlocks(a, b, m.i + m.size, ahi, m.j + m.size, bhi)
                 ELSE <<>>)

\* Adjacent blocks are merged into one.
RECURSIVE CollapseBlocks(_, _)
CollapseBlocks(blocks, cur) ==
    IF blocks = <<>> THEN (IF cur.size > 0 THEN <<cur>> ELSE <<>>)
    ELSE LET nxt == Head(blocks)
         IN  IF cur.i + cur.size = nxt.i /\ cur.j + cur.size = nxt.j
             THEN CollapseBlocks(Tail(blocks),
                                 [cur EXCEPT !.size = cur.size + nxt.size])
             ELSE (IF cur.size > 0 THEN <<cur>> ELSE <<>>)
                  \o CollapseBlocks(Tail(blocks), nxt)

\* SequenceMatcher.get_matching_blocks, the closing (len(a), len(b), 0) included
get_matching_blocks(a, b) ==
    CollapseBlocks(MatchingBlocks(a, b, 0, Len(a), 0, Len(b)),
                   [i |-> 0, j |-> 0, size |-> 0])
        \o <<[i |-> Len(a), j |-> Len(b), size |-> 0]>>

Opcode(tag, i1, i2, j1, j2) ==
    [tag |-> tag, i1 |-> i1, i2 |-> i2, j1 |-> j1, j2 |-> j2]

\* The loop of get_opcodes over the matching blocks, from positions i, j.
RECURSIVE OpcodesFrom(_, _, _)
OpcodesFrom(blocks, i, j) ==
    IF blocks = <<>> THEN <<>>
    ELSE LET m == Head(blocks)
             change == IF i < m.i /\ j < m.j THEN <<Opcode("replace", i, m.i, j, m.j)>>
                       ELSE IF i < m.i THEN <<Opcode("delete", i, m.i, j, m.j)>>
                       ELSE IF j < m.j THEN <<Opcode("insert", i, m.i, j, m.j)>>
                       ELSE <<>>
             same == IF m.size > 0
                     THEN <<Opcode("equal", m.i, m.i + m.size, m.j, m.j + m.size)>>
                     ELSE <<>>
         IN  change \o same \o OpcodesFrom(Tail(blocks), m.i + m.size, m.j + m.size)

\* SequenceMatcher.get_opcodes
get_opcodes(a, b) == OpcodesFrom(get_matching_blocks(a, b), 0, 0)

\* The loop of get_grouped_opcodes: an equal run longer than 2n ends a
\* group after n lines and begins the next n lines before its end.
RECURSIVE GroupFrom(_, _, _, _)
GroupFrom(codes, k, group, n) ==
    IF k > Len(codes)
    THEN IF group # <<>> /\ ~(Len(group) = 1 /\ group[1].tag = "equal")
         THEN <<group>> ELSE <<>>
    ELSE LET c == codes[k]
         IN  IF c.tag = "equal" /\ c.i2 - c.i1 > n + n
             THEN <<Append(group, Opcode(c.tag, c.i1, Smaller(c.i2, c.i1 + n),
                                         c.j1, Smaller(c.j2, c.j1 + n)))>>
                  \o GroupFrom(codes, k + 1,
                               <<Opcode(c.tag, Larger(c.i1, c.i2 - n), c.i2,
                                        Larger(c.j1, c.j2 - n), c.j2)>>, n)
             ELSE GroupFrom(codes, k + 1, Append(group, c), n)

\* SequenceMatcher.get_grouped_opcodes(n)
get_grouped_opcodes(a, b, n) ==
    LET all   == get_opcodes(a, b)
        codes == IF all = <<>> THEN <<Opcode("equal", 0, 1, 0, 1)>> ELSE all
        front == IF codes[1].tag = "equal"
                 THEN [codes EXCEPT ![1] =
                          Opcode(@.tag, Larger(@.i1, @.i2 - n), @.i2,
                                 Larger(@.j1, @.j2 - n), @.j2)]
                 ELSE codes
        both  == IF front[Len(front)].tag = "equal"
                 THEN [front EXCEPT ![Len(front)] =
                          Opcode(@.tag, @.i1, Smaller(@.i2, @.i1 + n),
                                 @.j1, Smaller(@.j2, @.j1 + n))]
                 ELSE front
    IN  GroupFrom(both, 1, <<>>, n)

\* str(n) of a natural number
RECURSIVE Str(_)
Str(n) ==
    IF n < Len(DigitChars) THEN <<DigitChars[n + 1]>>
    ELSE Str(n \div Len(DigitChars)) \o <<DigitChars[(n % Len(DigitChars)) + 1]>>

\* difflib._format_range_unified(start, stop)
format_range_unified(start, stop) ==
    LET length == stop - start
    IN  IF length = 1 THEN Str(start + 1)
        ELSE IF length = 0 THEN Str(start) \o <<",">> \o Str(length)
        ELSE Str(start + 1) \o <<",">> \o Str(length)

\* Each line of lines[lo:hi] behind the prefix.
Prefixed(prefix, lines, lo, hi) ==
    [k \in 1..(hi - lo) |-> <<prefix>> \o lines[lo + k]]

\* The lines of one opcode of a hunk.
OpcodeLines(a, b, c) ==
    IF c.tag = "equal" THEN Prefixed(" ", a, c.i1, c.i2)
    ELSE (IF c.tag \in {"replace", "delete"}
          THEN Prefixed("-", a, c.i1, c.i2) ELSE <<>>)
         \o (IF c.tag \in {"replace", "insert"}
             THEN Prefixed("+", b, c.j1, c.j2) ELSE <<>>)

RECURSIVE GroupLines(_, _, _)
GroupLines(a, b, group) ==
    IF group = <<>> THEN <<>>
    ELSE OpcodeLines(a, b, Head(group)) \o GroupLines(a, b, Tail(group))

\* The header and the body of one hunk.
HunkLines(a, b, group) ==
    LET first == group[1]
        last  == group[Len(group)]
    IN  << <<"@", "@", " ", "-">> \o format_range_unified(first.i1, last.i2)
              \o <<" ", "+">> \o format_range_unified(first.j1, last.j2)
              \o <<" ", "@", "@">> >>
        \o GroupLines(a, b, group)

RECURSIVE AllHunkLines(_, _, _)
AllHunkLines(a, b, groups) ==
    IF groups = <<>> THEN <<>>
    ELSE HunkLines(a, b, Head(groups)) \o AllHunkLines(a, b, Tail(groups))

\* difflib.unified_diff(a, b, fromfile, tofile, lineterm=''), as a list
unified_diff(a, b, fromfile, tofile) ==
    LET groups == get_grouped_opcodes(a, b, ContextLines)
    IN  IF groups = <<>> THEN <<>>
        ELSE << <<"-", "-", "-", " ">> \o fromfile,
                <<"+", "+", "+", " ">> \o tofile >>
             \o AllHunkLines(a, b, groups)

----------------------------------------------------------------------------
(* main() and its helpers.                                                 *)

\* read_lines(path), once read_text() has the file's content
read_lines(content) == SplitLines(ReadText(content))

\* A rename that keeps no copy of the original.
RenameWithoutBackup(f) == [f EXCEPT !.original = Absent]

\* original_path.rename(backup_path)
RenameToBackup(f) == [f EXCEPT !.backup = f.original, !.original = Absent]

\* write_lines(path, lines): path.write_text("".join(lines))
write_lines(f, lines) == [f EXCEPT !.original = File(Join(lines))]

\* The locals of apply_patch in the run's state, as a frame.
Frame ==
    [pc |-> pc, result |-> result, orig_idx |-> orig_idx,
     patch_idx |-> patch_idx, old_start |-> old_start, stderr |-> stderr]

SetFrame(s) ==
    /\ pc' = s.pc
    /\ result' = s.result
    /\ orig_idx' = s.orig_idx
    /\ patch_idx' = s.patch_idx
    /\ old_start' = s.old_start
    /\ stderr' = s.stderr

\* apply_patch takes its next step; main's own state waits for it.
ApplyStep ==
    /\ SetFrame(Step(original_lines, patch_lines, Frame))
    /\ UNCHANGED <<fs, input, target_lines, original_lines, patch_lines, patched_lines>>

MainDie(msg) ==
    /\ pc' = "died"
    /\ stderr' = [msg |-> msg, arg |-> <<>>]

----------------------------------------------------------------------------
(* The inputs: the files main() finds at the two paths.                    *)

LineA == <<"a", "\n">>

LineB == <<"b", "\n">>

ContentLines == {LineA, LineB}

SeqsUpTo(S, n) == UNION {[1..k -> S] : k \in 0..n}

\* Files of up to MaxOrigLines terminated lines, one whose last line has no
\* terminator and one with a CRLF terminator.
OriginalFiles ==
    {Join(ls) : ls \in SeqsUpTo(ContentLines, MaxOrigLines)}
        \cup {<<"b", "\n", "a">>, <<"a", "\r", "\n">>}

\* Patch lines that may occur any number of times in a patch: a hunk header
\* for line 1, a context line, a removal line and an insertion line.
CoreLines ==
    {<<"@", "@", " ", "-", "1", " ", "+", "1", " ", "@", "@", "\n">>,
     <<" ", "a", "\n">>,
     <<"-", "b", "\n">>,
     <<"+", "b", "\n">>}

\* Patch lines of which a patch holds at most one: two diff headers, a hunk
\* header for line 2, hunk headers that do not parse (no closing delimiter,
\* no second range, no number), hunk headers for line 4 and for an empty
\* old range, a line that is no patch line, and a removal and a context
\* line for the other content line.
SpecialLines ==
    {<<"-", "-", "-", " ", "f", "\n">>,
     <<"@", "@", " ", "-", "2", ",", "1", " ", "+", "2", ",", "1", " ", "@", "@", "\n">>,
     <<"@", "@", " ", "-", "1", " ", "+", "1", "\n">>,
     <<"@", "@", " ", "-", "1", " ", "@", "@", "\n">>,
     <<"@", "@", " ", "-", "x", " ", "+", "1", " ", "@", "@", "\n">>,
     <<"@", "@", " ", "-", "4", ",", "2", " ", "+", "4", ",", "2", " ", "@", "@", " ", "f", "\n">>,
     <<"@", "@", " ", "-", "0", ",", "0", " ", "+", "1", " ", "@", "@", "\n">>,
     <<"\\", " ", "N", "o", " ", "n", "e", "w", "l", "i", "n", "e", "\n">>,
     <<"i", "n", "d", "e", "x", " ", "1", "\n">>,
     <<"-", "a", "\n">>,
     <<" ", "b", "\n">>}

InsertAt(s, i, x) == SubSeq(s, 1, i) \o <<x>> \o SubSeq(s, i + 1, Len(s))

PatchLineSeqs ==
    SeqsUpTo(CoreLines, MaxPatchLines)
        \cup UNION {{InsertAt(s, i, x) : i \in 0..Len(s), x \in SpecialLines} :
                       s \in SeqsUpTo(CoreLines, MaxPatchLines - 1)}

PatchFiles == {Join(ls) : ls \in PatchLineSeqs}

Init ==
    /\ pc = "main"
    /\ \E o \in {File(c) : c \in OriginalFiles} \cup {Absent},
          p \in {File(c) : c \in PatchFiles} \cup {Absent} :
          /\ fs = [original |-> o, patch |-> p, backup |-> Absent]
          /\ input = [original |-> o, patch |-> p]
    /\ target_lines = <<>>
    /\ original_lines = <<>>
    /\ patch_lines = <<>>
    /\ result = <<>>
    /\ orig_idx = 0
    /\ patch_idx = 0
    /\ old_start = 0
    /\ patched_lines = <<>>
    /\ stderr = NoMessage

----------------------------------------------------------------------------
(* The steps of main().                                                    *)

\* if not original_path.exists(): die(...)
OriginalMissing ==
    /\ pc = "main"
    /\ fs.original = Absent
    /\ MainDie("Original file not found")
    /\ UNCHANGED <<fs, input, target_lines, original_lines, patch_lines, result, orig_idx,
                   patch_idx, old_start, patched_lines>>

\* if not patch_path.exists(): die(...)
PatchMissing ==
    /\ pc = "main"
    /\ fs.original # Absent
    /\ fs.patch = Absent
    /\ MainDie("Patch file not found")
    /\ UNCHANGED <<fs, input, target_lines, original_lines, patch_lines, result, orig_idx,
                   patch_idx, old_start, patched_lines>>

\* original_lines = read_lines(original_path)
ReadOriginal ==
    /\ pc = "main"
    /\ fs.original # Absent
    /\ fs.patch # Absent
    /\ original_lines' = read_lines(fs.original.content)
    /\ pc' = "read_patch"
    /\ UNCHANGED <<fs, input, target_lines, patch_lines, result, orig_idx, patch_idx,
                   old_start, patched_lines, stderr>>

\* read_text() raises (the file cannot be opened or decoded): die(...)
ReadOriginalFails ==
    /\ pc = "main"
    /\ fs.original # Absent
    /\ fs.patch # Absent
    /\ MainDie("Failed to read")
    /\ UNCHANGED <<fs, input, target_lines, original_lines, patch_lines, result, orig_idx,
                   patch_idx, old_start, patched_lines>>

\* patch_lines = read_lines(patch_path), then apply_patch is entered
ReadPatch ==
    /\ pc = "read_patch"
    /\ patch_lines' = read_lines(fs.patch.content)
    /\ SetFrame(EntryFrame)
    /\ UNCHANGED <<fs, input, target_lines, original_lines, patched_lines>>

ReadPatchFails ==
    /\ pc = "read_patch"
    /\ MainDie("Failed to read")
    /\ UNCHANGED <<fs, input, target_lines, original_lines, patch_lines, result, orig_idx,
                   patch_idx, old_start, patched_lines>>

----------------------------------------------------------------------------
(* The steps of apply_patch(), one per pass through a loop.                *)

AtPatchLine == pc \in {"scan", "body"} /\ patch_idx < Len(patch_lines)

CurrentLine == patch_lines[patch_idx + 1]

\* Outer loop, a diff header line: skipped.
ScanDiffHeader ==
    /\ pc = "scan" /\ AtPatchLine
    /\ IsDiffHeader(CurrentLine)
    /\ ApplyStep

\* Outer loop, a hunk header that parses: on to the copy loop.
ScanHunkHeader ==
    /\ pc = "scan" /\ AtPatchLine
    /\ ~IsDiffHeader(CurrentLine) /\ IsHunkHeader(CurrentLine)
    /\ ParseHunkHeader(CurrentLine).ok
    /\ ApplyStep

\* Outer loop, a hunk header that does not parse: die.
ScanMalformedHeader ==
    /\ pc = "scan" /\ AtPatchLine
    /\ ~IsDiffHeader(CurrentLine) /\ IsHunkHeader(CurrentLine)
    /\ ~ParseHunkHeader(CurrentLine).ok
    /\ ApplyStep

\* Outer loop, any other line: die.
ScanUnexpectedContent ==
    /\ pc = "scan" /\ AtPatchLine
    /\ ~IsDiffHeader(CurrentLine) /\ ~IsHunkHeader(CurrentLine)
    /\ ApplyStep

\* Copy loop, a line before the hunk exists: copied.
CopyBeforeHunk ==
    /\ pc = "copy"
    /\ orig_idx < old_start /\ orig_idx < Len(original_lines)
    /\ ApplyStep

\* Copy loop, the hunk starts past the end of the file: IndexError.
CopyPastEnd ==
    /\ pc = "copy"
    /\ orig_idx < old_start /\ orig_idx >= Len(original_lines)
    /\ ApplyStep

\* Copy loop over: the hunk body begins.
BeginBody ==
    /\ pc = "copy"
    /\ orig_idx >= old_start
    /\ ApplyStep

\* Body loop, the next hunk header: break.
BodyBreak ==
    /\ pc = "body" /\ AtPatchLine
    /\ IsHunkHeader(CurrentLine)
    /\ ApplyStep

\* Body loop, the patch is exhausted: the loop ends.
BodyEnd ==
    /\ pc = "body"
    /\ patch_idx >= Len(patch_lines)
    /\ ApplyStep

BodyLineIs(prefix) ==
    /\ pc = "body" /\ AtPatchLine
    /\ ~IsHunkHeader(CurrentLine)
    /\ StartsWith(CurrentLine, prefix)

Matches == orig_idx < Len(original_lines)
              /\ original_lines[orig_idx + 1] = From(CurrentLine, 1)

BodyContext == BodyLineIs(<<" ">>) /\ Matches /\ ApplyStep

BodyContextMismatch == BodyLineIs(<<" ">>) /\ ~Matches /\ ApplyStep

BodyRemoval == BodyLineIs(<<"-">>) /\ Matches /\ ApplyStep

BodyRemovalMismatch == BodyLineIs(<<"-">>) /\ ~Matches /\ ApplyStep

BodyInsert == BodyLineIs(<<"+">>) /\ ApplyStep

BodyUnexpectedLine ==
    /\ pc = "body" /\ AtPatchLine
    /\ ~IsHunkHeader(CurrentLine)
    /\ ~StartsWith(CurrentLine, <<" ">>)
    /\ ~StartsWith(CurrentLine, <<"-">>)
    /\ ~StartsWith(CurrentLine, <<"+">>)
    /\ ApplyStep

\* Outer loop over: the tail is appended and main receives the result.
Return ==
    /\ pc = "scan"
    /\ patch_idx >= Len(patch_lines)
    /\ SetFrame(Step(original_lines, patch_lines, Frame))
    /\ patched_lines' = result'
    /\ UNCHANGED <<fs, input, target_lines, original_lines, patch_lines>>

----------------------------------------------------------------------------
(* main() after apply_patch() has returned.                                *)

\* original_path.rename(backup_path)
Backup ==
    /\ pc = "returned"
    /\ fs' = RenameToBackup(fs)
    /\ pc' = "renamed"
    /\ UNCHANGED <<input, target_lines, original_lines, patch_lines, result, orig_idx,
                   patch_idx, old_start, patched_lines, stderr>>

\* rename() raises OSError, which nothing catches.
BackupFails ==
    /\ pc = "returned"
    /\ pc' = "crashed"
    /\ stderr' = [msg |-> "OSError", arg |-> <<>>]
    /\ UNCHANGED <<fs, input, target_lines, original_lines, patch_lines, result, orig_idx,
                   patch_idx, old_start, patched_lines>>

\* write_lines(original_path, patched_lines)
WriteOutput ==
    /\ pc = "renamed"
    /\ fs' = write_lines(fs, patched_lines)
    /\ pc' = "done"
    /\ UNCHANGED <<input, target_lines, original_lines, patch_lines, result, orig_idx,
                   patch_idx, old_start, patched_lines, stderr>>

\* write_text() raises: the file could not be created, or was created empty
\* and not written.
WriteOutputFails ==
    /\ pc = "renamed"
    /\ \E left \in {Absent, File(<<>>)} : fs' = [fs EXCEPT !.original = left]
    /\ MainDie("Failed to write")
    /\ UNCHANGED <<input, target_lines, original_lines, patch_lines, result, orig_idx,
                   patch_idx, old_start, patched_lines>>

Next ==
    \/ OriginalMissing
    \/ PatchMissing
    \/ ReadOriginal
    \/ ReadOriginalFails
    \/ ReadPatch
    \/ ReadPatchFails
    \/ ScanDiffHeader
    \/ ScanHunkHeader
    \/ ScanMalformedHeader
    \/ ScanUnexpectedContent
    \/ CopyBeforeHunk
    \/ CopyPastEnd
    \/ BeginBody
    \/ BodyBreak
    \/ BodyEnd
    \/ BodyContext
    \/ BodyContextMismatch
    \/ BodyRemoval
    \/ BodyRemovalMismatch
    \/ BodyInsert
    \/ BodyUnexpectedLine
    \/ Return
    \/ Backup
    \/ BackupFails
    \/ WriteOutput
    \/ WriteOutputFails

Spec == Init /\ [][Next]_vars

----------------------------------------------------------------------------
(* The round trip: the diff auto_patch.py computes between its two line    *)
(* lists, handed as the patch to apply_patch with the first list as the    *)
(* original.                                                               *)

\* Lines that look like patch syntax once they follow a prefix, and an
\* empty line.
MarkerLines ==
    {<<"-", "-", "\n">>, <<"+", "+", " ", "\n">>, <<"@", "@", " ", "x", "\n">>,
     <<"\n">>}

\* A run of equal lines too long to stay within one hunk when only its two
\* ends change.
LongRun == [k \in 1..(ContextLines + ContextLines + 1) |-> LineA]

\* Line lists of up to MaxDiffLines lines; lists with one marker line; lists
\* whose last line has no terminator; lists around the long run.
DiffInputs ==
    SeqsUpTo(ContentLines, MaxDiffLines)
        \cup UNION {{InsertAt(s, i, x) : i \in 0..Len(s), x \in MarkerLines} :
                       s \in SeqsUpTo(ContentLines, MaxDiffLines - 2)}
        \cup {Append(s, <<"b">>) : s \in SeqsUpTo(ContentLines, 1)}
        \cup {pre \o LongRun \o suf : pre \in SeqsUpTo(ContentLines, 1),
                                     suf \in SeqsUpTo(ContentLines, 1)}

InitRT ==
    /\ pc = "diff"
    /\ original_lines \in DiffInputs
    /\ target_lines \in DiffInputs
    /\ fs = [original |-> Absent, patch |-> Absent, backup |-> Absent]
    /\ input = [original |-> Absent, patch |-> Absent]
    /\ patch_lines = <<>>
    /\ result = <<>>
    /\ orig_idx = 0
    /\ patch_idx = 0
    /\ old_start = 0
    /\ patched_lines = <<>>
    /\ stderr = NoMessage

\* diff = difflib.unified_diff(orig_lines, patched_lines, ...), and
\* apply_patch is entered with it.
ComputeDiff ==
    /\ pc = "diff"
    /\ patch_lines' = unified_diff(original_lines, target_lines,
                                   ORIGINAL_FILE, PATCHED_FILE)
    /\ SetFrame(EntryFrame)
    /\ UNCHANGED <<fs, input, target_lines, original_lines, patched_lines>>

\* One pass through a loop of apply_patch.
ApplyDiff ==
    /\ pc \in {"scan", "copy", "body"}
    /\ ApplyStep

NextRT ==
    \/ ComputeDiff
    \/ ApplyDiff

SpecRT == InitRT /\ [][NextRT]_vars

----------------------------------------------------------------------------
(* Properties.                                                             *)

\* The messages of the five failures of apply_patch.
ApplyFailures ==
    {"Malformed hunk header", "Context mismatch while applying patch",
     "Removal mismatch while applying patch", "Unexpected patch line",
     "Unexpected patch content"}

\* The file system as main() found it.
Untouched ==
    fs = [original |-> input.original, patch |-> input.patch, backup |-> Absent]

\* C1 (all-or-nothing): once apply_patch has failed with one of its five
\* errors the run is over (die() has exited), the original file is at its
\* path with the content it had, there is no backup file, nothing was
\* written, and main never received a result.
C1_AllOrNothing ==
    stderr.msg \in ApplyFailures =>
        /\ pc = "died"
        /\ Untouched
        /\ patched_lines = <<>>

\* C1's case: a context mismatch after part of the result was built.
C1_Witness ==
    /\ pc = "died"
    /\ stderr.msg = "Context mismatch while applying patch"
    /\ result # <<>>
    /\ fs.original = input.original
    /\ fs.backup = Absent

\* The run is past the rename of the original to the backup path.
Renamed ==
    \/ pc \in {"renamed", "done"}
    \/ pc = "died" /\ stderr.msg = "Failed to write"

\* C4 (backup before overwrite): the original path is written only after
\* apply_patch has returned and the pre-patch file has been moved to the
\* backup path; a run that ends in a failed read, a failed apply_patch or a
\* failed rename has written nothing; a completed run leaves the pre-patch
\* content in the backup and the patched result at the original path.
C4_BackupBeforeOverwrite ==
    /\ ~Renamed => Untouched
    /\ Renamed =>
          /\ fs.backup = input.original
          /\ fs.patch = input.patch
          /\ patched_lines = result
          /\ apply_patch(original_lines, patch_lines).pc = "returned"
    /\ pc = "renamed" => fs.original = Absent
    /\ pc = "done" =>
          fs.original =
              File(Join(apply_patch(original_lines, patch_lines).result))

\* C4's case: a completed run that changed the file.
C4_Witness ==
    /\ pc = "done"
    /\ fs.backup = input.original
    /\ fs.original # input.original
    /\ fs.original = File(Join(patched_lines))

\* apply_patch has returned to main.
Returned == pc \in {"returned", "renamed", "done"} \/ stderr.msg = "Failed to write"
               \/ stderr.msg = "OSError"

\* The last n elements of s.
Suffix(s, n) == SubSeq(s, Len(s) - n + 1, Len(s))

NoHunks == \A i \in 1..Len(patch_lines) : ~IsHunkHeader(patch_lines[i])

\* C5 (tail preservation, identity): a returned result ends with
\* original[orig_idx:], orig_idx being where the last hunk body line left
\* it; a patch without a hunk returns the original.
C5_TailPreserved ==
    Returned =>
        /\ Len(result) >= Len(original_lines) - orig_idx
        /\ Suffix(result, Len(original_lines) - orig_idx)
              = From(original_lines, orig_idx)
        /\ NoHunks => orig_idx = 0 /\ result = original_lines

\* C5's case: a hunk consumed a proper prefix of the original and changed it.
C5_Witness ==
    /\ pc = "returned"
    /\ 0 < orig_idx /\ orig_idx < Len(original_lines)
    /\ result # original_lines
    /\ Suffix(result, Len(original_lines) - orig_idx)
          = From(original_lines, orig_idx)

\* C6 (cursor invariant): orig_idx stays within 0..len(original_lines) and
\* never decreases.
C6_CursorInvariant ==
    /\ [](0 <= orig_idx /\ orig_idx <= Len(original_lines))
    /\ [][orig_idx' >= orig_idx]_vars

\* C6's case: the copy loop ran to the end of the original and stopped there.
C6_Witness ==
    /\ pc = "crashed"
    /\ stderr.msg = "IndexError"
    /\ orig_idx = Len(original_lines)
    /\ orig_idx > 0

\* The hunk header at the head of the outer loop, when there is one.
AtHunkHeader ==
    /\ pc = "scan"
    /\ patch_idx < Len(patch_lines)
    /\ IsHunkHeader(CurrentLine)

\* Where the closing "@@" of a header begins, 0 when it has none.
ClosingDelimiter(h) ==
    LET at == {i \in 3..(Len(h) - 1) : h[i] = "@" /\ h[i + 1] = "@"}
    IN  IF at = {} THEN 0 ELSE SetMin(at)

\* The text between the two delimiters, without surrounding whitespace.
RangeText(h) == Strip(SubSeq(h, 3, ClosingDelimiter(h) - 1))

HasSecondRange(h) == \E i \in 1..Len(RangeText(h)) : RangeText(h)[i] = " "

\* The old range's start: the first token up to its comma, dashes removed.
OldStartToken(h) ==
    LET r    == RangeText(h)
        stop == SetMin({i \in 1..Len(r) : r[i] \in {" ", ","}} \cup {Len(r) + 1})
        tok  == SubSeq(r, 1, stop - 1)
        lead == SetMin({i \in 1..Len(tok) : tok[i] # "-"} \cup {Len(tok) + 1})
    IN  SubSeq(tok, lead, Len(tok))

\* A token that is decimal digits and nothing else.
PlainNumber(tok) == tok # <<>> /\ \A i \in 1..Len(tok) : IsDigit(tok[i])

\* A token without a digit, or with a character no number holds.
NotANumber(tok) ==
    \/ \A i \in 1..Len(tok) : ~IsDigit(tok[i])
    \/ \E i \in 1..Len(tok) :
          ~IsDigit(tok[i]) /\ tok[i] \notin {"+", "-", "_"} \cup WhiteSpace

MalformedHeader(h) ==
    \/ ClosingDelimiter(h) = 0
    \/ ~HasSecondRange(h)
    \/ NotANumber(OldStartToken(h))

WellFormedHeader(h) ==
    /\ ClosingDelimiter(h) # 0
    /\ HasSecondRange(h)
    /\ PlainNumber(OldStartToken(h))

\* C7 (header malformation): a hunk header without the closing "@@", without
\* a second range token or whose old start is not a number makes apply_patch
\* die at once with "Malformed hunk header" and the header's text, no line
\* copied and nothing returned; a well-formed header sets old_start to the
\* old range's leading integer minus one, no line copied yet.
C7_HeaderParsing ==
    [][AtHunkHeader =>
          /\ MalformedHeader(CurrentLine) =>
                /\ pc' = "died"
                /\ stderr' = [msg |-> "Malformed hunk header",
                              arg |-> Strip(CurrentLine)]
                /\ result' = result /\ orig_idx' = orig_idx
                /\ patched_lines' = <<>>
          /\ WellFormedHeader(CurrentLine) =>
                /\ pc' = "copy"
                /\ old_start' = DecimalValue(OldStartToken(CurrentLine)) - 1
                /\ result' = result /\ orig_idx' = orig_idx]_vars

\* C7's case: a second hunk's header has no number; the first hunk's output
\* is dropped with the run.
C7_Witness ==
    /\ pc = "died"
    /\ stderr.msg = "Malformed hunk header"
    /\ stderr.arg = <<"@", "@", " ", "-", "x", " ", "+", "1", " ", "@", "@">>
    /\ result # <<>>

\* The copy loop run from frame s until it is left.
RECURSIVE CopyLoop(_, _)
CopyLoop(O, s) == IF s.pc = "copy" THEN CopyLoop(O, Step(O, <<>>, s)) ELSE s

\* C8 as amended (inter-hunk copy): from a hunk header with
\* orig_idx <= old_start <= len(original), the copy loop appends exactly
\* original[orig_idx:old_start] and leaves orig_idx = old_start as the hunk
\* body begins; with old_start > len(original) it appends what is left of
\* the original, raises IndexError with orig_idx = len(original), and
\* apply_patch returns nothing.
C8_InterHunkCopy ==
    /\ (pc = "copy" /\ orig_idx <= old_start) =>
          LET e == CopyLoop(original_lines, Frame)
          IN  IF old_start <= Len(original_lines)
              THEN /\ e.pc = "body"
                   /\ e.orig_idx = old_start
                   /\ e.result = result \o SubSeq(original_lines, orig_idx + 1, old_start)
                   /\ e.patch_idx = patch_idx + 1
              ELSE /\ e.pc = "crashed"
                   /\ e.stderr.msg = "IndexError"
                   /\ e.orig_idx = Len(original_lines)
                   /\ e.result = result \o From(original_lines, orig_idx)
    /\ stderr.msg = "IndexError" =>
          pc = "crashed" /\ patched_lines = <<>> /\ Untouched

\* C8 as stated: for every old_start >= orig_idx, larger than
\* len(original) included, the copy loop appends the original lines with
\* index in [orig_idx, old_start) and the hunk body begins with
\* orig_idx = old_start.
C8_AsStated ==
    (pc = "copy" /\ orig_idx <= old_start) =>
        LET e == CopyLoop(original_lines, Frame)
            last == IF old_start <= Len(original_lines) THEN old_start
                    ELSE Len(original_lines)
        IN  /\ e.pc = "body"
            /\ e.orig_idx = old_start
            /\ e.result = result \o SubSeq(original_lines, orig_idx + 1, last)

\* C8's case: the body of a hunk for line 2 begins, line 1 just copied.
C8_Witness ==
    /\ pc = "body"
    /\ patch_idx >= 1 /\ IsHunkHeader(patch_lines[patch_idx])
    /\ old_start > 0 /\ orig_idx = old_start
    /\ result # <<>> /\ result[Len(result)] = original_lines[old_start]

\* C9 (overlapping hunks are an error): a hunk header whose old_start lies
\* in the part of the original that earlier hunks have consumed
\* (0 <= old_start < orig_idx) makes apply_patch fail.
C9_OverlapIsError ==
    [][(pc = "copy" /\ 0 <= old_start /\ old_start < orig_idx)
          => pc' \in {"died", "crashed"}]_vars

\* apply_patch is running.
Applying == pc \in {"scan", "copy", "body"}

\* What is left to do, counted in passes through the three loops.
Rank ==
    LET width == Len(original_lines) + 3
        left  == (Len(patch_lines) - patch_idx) * width
    IN  CASE pc = "body" -> left + width
          [] pc = "scan" -> left + width - 1
          [] pc = "copy" -> left + (Len(original_lines) - orig_idx) + 1
          [] OTHER -> 0

\* C10 (termination): apply_patch finishes, returning or failing.  While it
\* runs it always has a next step, and each step leaves strictly less to
\* do (Rank falls and is never negative); patch_idx never decreases, stays
\* within the patch, and grows by one with every pass of the outer loop
\* that skips a line, every hunk header taken and every pass of the body
\* loop that consumes a line, so no patch line is examined twice by the
\* body loop.
C10_Termination ==
    /\ [](/\ patch_idx <= Len(patch_lines)
          /\ Rank >= 0
          /\ Applying => Step(original_lines, patch_lines, Frame) # Frame)
    /\ [][/\ patch_idx' >= patch_idx
          /\ (pc = "scan" /\ pc' = "scan") => patch_idx' = patch_idx + 1
          /\ (pc = "copy" /\ pc' = "body") => patch_idx' = patch_idx + 1
          /\ (pc = "body" /\ pc' = "body") => patch_idx' = patch_idx + 1
          /\ Applying => Rank' < Rank]_vars

\* C10 as stated: as above, but with patch_idx growing on every pass of the
\* body loop that does not fail, the pass that meets the next hunk header
\* and breaks included.
C10_AsStated ==
    /\ [](/\ patch_idx <= Len(patch_lines)
          /\ Rank >= 0
          /\ Applying => Step(original_lines, patch_lines, Frame) # Frame)
    /\ [][/\ patch_idx' >= patch_idx
          /\ (pc = "scan" /\ pc' = "scan") => patch_idx' = patch_idx + 1
          /\ (pc = "copy" /\ pc' = "body") => patch_idx' = patch_idx + 1
          /\ (pc = "body" /\ patch_idx < Len(patch_lines)
                 /\ pc' \notin {"died", "crashed"}) => patch_idx' > patch_idx
          /\ Applying => Rank' < Rank]_vars

\* C10's case: two hunks were applied and the whole patch was scanned.
C10_Witness ==
    /\ pc = "returned"
    /\ patch_idx = Len(patch_lines)
    /\ \E i, j \in 1..Len(patch_lines) :
          i < j /\ IsHunkHeader(patch_lines[i]) /\ IsHunkHeader(patch_lines[j])

\* The body loop is at a line with this first character.
AtBodyLine(prefix) ==
    /\ pc = "body"
    /\ patch_idx < Len(patch_lines)
    /\ CurrentLine[1] = prefix

\* The payload of the line at the cursor is not original[orig_idx].
PayloadDiffers ==
    \/ orig_idx >= Len(original_lines)
    \/ original_lines[orig_idx + 1] # SubSeq(CurrentLine, 2, Len(CurrentLine))

\* Patch P with character j of line i replaced by c.
ReplaceChar(P, i, j, c) == [P EXCEPT ![i][j] = c]

\* Characters a payload's character is changed from or to.
MutationChars == {"a", "b", "c", "\n"}

\* Line i of P follows a hunk header: the body loop is what examines it.
InHunkBody(P, i) == \E k \in 1..(i - 1) : IsHunkHeader(P[k])

MismatchOf(prefix) ==
    IF prefix = " " THEN "Context mismatch while applying patch"
    ELSE "Removal mismatch while applying patch"

\* C3 (mismatch detection): a context line whose payload differs from
\* original[orig_idx] makes apply_patch die with the context-mismatch
\* error, a removal line with the removal-mismatch error, nothing returned;
\* and a patch that differs from one that applies cleanly in a single
\* payload character of one context or removal line dies with that error
\* at that line.
C3_MismatchDetected ==
    /\ [][\A prefix \in {" ", "-"} :
             (AtBodyLine(prefix) /\ PayloadDiffers) =>
                 /\ pc' = "died"
                 /\ stderr' = [msg |-> MismatchOf(prefix), arg |-> <<>>]
                 /\ patched_lines' = <<>>]_vars
    /\ [](pc \in Ended =>
            \A i \in 1..Len(patch_lines) :
              \A j \in 2..Len(patch_lines[i]) :
                \A c \in MutationChars \ {patch_lines[i][j]} :
                   (/\ patch_lines[i][1] \in {" ", "-"}
                    /\ InHunkBody(patch_lines, i)
                    /\ apply_patch(original_lines,
                                   ReplaceChar(patch_lines, i, j, c)).pc = "returned")
                   => /\ pc = "died"
                      /\ stderr.msg = MismatchOf(patch_lines[i][1])
                      /\ patch_idx = i - 1
                      /\ patched_lines = <<>>)

\* C3's case: the patch died of a removal mismatch at a line which, one
\* payload character changed, is a line of a patch that applies cleanly.
C3_Witness ==
    /\ pc = "died"
    /\ stderr.msg = "Removal mismatch while applying patch"
    /\ \E c \in MutationChars :
          apply_patch(original_lines,
                      ReplaceChar(patch_lines, patch_idx + 1, 2, c)).pc = "returned"

----------------------------------------------------------------------------
(* C2: the round trip.  For every original line list O and target line     *)
(* list T, apply_patch(O, unified_diff(O, T)) succeeds and returns exactly *)
(* T: the run over the computed diff never dies or crashes, and when it    *)
(* has returned the result is the target.                                  *)

HunkCount == Cardinality({k \in 1..Len(patch_lines) : IsHunkHeader(patch_lines[k])})

C2_RoundTrip ==
    /\ pc \notin {"died", "crashed"}
    /\ pc = "returned" => result = target_lines

\* A diff of two hunks has been applied and has led to a target that differs
\* from the original.
C2_Witness ==
    /\ pc = "returned"
    /\ HunkCount >= 2
    /\ target_lines # original_lines
    /\ result = target_lines

====
